---- MODULE Spec2Model ----
(***************************************************************************)
(* space-dl: the segment capture engine (downloader.go), the monitor loop  *)
(* of its caller (cmd/space-dl/main.go, download) and the API client's     *)
(* Query call (twitter.go).                                                *)
(*                                                                         *)
(* A goroutine is a process with a program counter; an action is one run   *)
(* of a goroutine from one blocking point (a channel operation, a select,  *)
(* an HTTP request) to the next.  A run-time panic (close of a closed      *)
(* channel, nil dereference) ends the whole process: crashed = TRUE, and   *)
(* nothing is enabled afterwards.                                          *)
(***************************************************************************)
EXTENDS Naturals, Integers, Sequences, FiniteSets

\* ------------------------------------------------------------------ bounds
\* SeqIds the playlist can name: 1..MaxSeg
MaxSeg == 2
\* the requests and the refreshes of one Query call are counted, and its
\* attempts recorded, up to MaxRequests
MaxRequests == 3
\* the objects with an operationName: marker in the scanned source: at most
\* MaxFrag
MaxFrag == 3
\* the entries of the parameter list appendMissingParam is given: at most
\* MaxParams
MaxParams == 2
\* ------------------------------------------------------- program constants
playlistDownloadErrorLimit == 30
\* make(chan *url.URL, 10)
dlChCap == 10
\* NewDownloader: Parallel: 3
DefaultParallel == 3

SegIds == 1..MaxSeg
\* the SeqIds of a playlist long enough to fill the queue with every worker
\* busy and one URL left over
LongSegIds == 1..(dlChCap + DefaultParallel + 1)
\* a URI url.Parse rejects
BadURI == 0
\* the URIs url.Parse accepts are numbered: URI u has the last path element
\* Base(u), and the URIs u and u + MaxSeg differ in their directory only
Base(u) == ((u - 1) % MaxSeg) + 1
\* the URI the playlist gives segment i: one with a file name of its own, or
\* a bad one
SegURIs(i) == {BadURI, i}
\* the same, or a URI in another directory with the file name of segment 1
SegURIsAnyDir(i) == {BadURI, i, MaxSeg + 1}
\* the nil *url.URL
NilURL == 0

VARIABLES
    \* --- Downloader (downloader.go:37-49)
    seq,            \* d.seq: the SeqIds stored in the sync.Map
    halt,           \* d.halt: "nil" before Start, "open", "closed"
    dlCh,           \* d.dlCh: the buffered items, oldest first
    dlChClosed,     \* close(d.dlCh) has run
    Done,           \* d.Done: "nil", "open", "closed"
    Parallel,       \* d.Parallel
    \* --- the poller goroutine (downloader.go:66-92)
    ppc,            \* "none", "select", "getSegments", "send", "exited"
    errCount,       \* its local errCount
    urls,           \* the part of its local urls not yet sent
    pTick,          \* a tick is buffered in its ticker.C
    \* --- the workers (downloader.go:96-105): anonymous, so counted
    busy,           \* the items being downloaded, one per busy worker
    exitedWorkers,  \* the workers that have returned (wg.Done)
    \* --- download (main.go:190-215)
    mpc,            \* "start", "select", "query", "returned"
    mTick,          \* a tick is buffered in its ticker.C
    mStopped,       \* ticker.Stop() has run
    \* --- the process
    crashed,        \* a goroutine panicked
    \* --- history (not program state)
    enqueued,       \* SeqId -> the number of times it was sent on dlCh
    haltCalls,      \* the number of times Halt ran close(d.halt)
    selfHalted,     \* the poller called Halt
    failRun,        \* the failed polls since the last successful one
    pollAfterHalt,  \* a poll began with d.halt already closed
    workAfterDone,  \* a download began or ended with d.Done closed
    repeated,       \* a poll met again a SeqId that was stored before
    pollNotMedia,   \* the latest getSegments call met a playlist that is
                    \* not of media kind
    attempts,       \* SeqId -> the number of downloadSegment calls for it
    written,        \* the files opened for writing, and for which SeqId
    lastQuery       \* what download's latest state query returned

VARIABLES
    \* --- Client (twitter.go:50-55)
    operations,     \* c.operations: OperationName -> QueryID
    bearerToken,    \* c.bearerToken
    guestToken,     \* c.guestToken
    initState,      \* Initialize: "new" (not called), "ok", "failed"
    \* --- the Query calls in progress, one per caller
    callers,        \* the callers that use the client
    qpc,            \* "idle", "request", "refresh", "done"
    qname,          \* the name the call was given
    qerr,           \* the error the call returned
    \* --- history of the call in progress (not program state)
    nreq,           \* the requests it sent
    nrefresh,       \* the guest tokens it stored
    errs,           \* the error of each attempt, in order
    sent,           \* the guest token its latest request carried
    issued,         \* the guest token its latest refresh obtained
    last,           \* the latest response it received, and its error
    \* --- history of Initialize (not program state)
    initRun         \* the steps it performed and the error it returned

cvars == <<operations, bearerToken, guestToken, initState, callers, qpc,
           qname, qerr, nreq, nrefresh, errs, sent, issued, last, initRun>>

dvars == <<seq, halt, dlCh, dlChClosed, Done, Parallel, ppc, errCount, urls,
           pTick, busy, exitedWorkers, mpc, mTick, mStopped, crashed>>
hvars == <<enqueued, haltCalls, selfHalted, failRun, pollAfterHalt,
           workAfterDone, repeated, pollNotMedia, attempts, written,
           lastQuery>>

VARIABLES
    \* --- run (main.go:89-160)
    rpc,            \* "none": run is not part of the behaviour, the client
                    \* and the engine are called directly; else its position:
                    \* "run", "info", "stream", "download", "started", "failed"
    stream,         \* what GetStreamURL returned
    runInfo,        \* the state and the owner run read from AudioSpaceById
    \* --- the order of discovery and the failed downloads, recorded when
    \* observe holds (history, not program state)
    observe,
    found,          \* the SeqIds in the order the polls stored them
    enqSeq,         \* the SeqIds in the order they were sent on dlCh
    failedDl,       \* the SeqIds whose download returned an error
    metFailed,      \* a poll met again a SeqId whose download had failed
    haltInSend,     \* download called Halt while the poller was sending
    \* --- one call of extractOperations (twitter.go:484-540)
    src,            \* the fragments of the scanned source, in order
    catalog,        \* the map it returned
    exPc,           \* "idle", "called", "returned", "panicked"
    \* --- one call of appendMissingParam (main.go:359-378)
    apIn,           \* its arguments params, paramKey and key
    apOut,          \* the list it returned
    apPc            \* "idle", "called", "returned"

rvars == <<rpc, stream, runInfo>>
ovars == <<observe, found, enqSeq, failedDl, metFailed, haltInSend>>
evars == <<src, catalog, exPc, apIn, apOut, apPc>>
vars == <<dvars, hvars, cvars, rvars, ovars, evars>>

\* ----------------------------------------------------------------- inputs
\* a segment descriptor of a decoded media playlist
Segment(i, u) == [SeqId |-> i, URI |-> u]

\* the decoded media playlists: a window lo..hi of SeqIds, in order
Playlists ==
    {<<>>} \cup
    UNION {{[k \in 1..(hi - lo + 1) |-> Segment(lo + k - 1, f[lo + k - 1])] :
               f \in {g \in [lo..hi -> 0..MaxSeg] :
                          \A i \in lo..hi : g[i] \in SegURIs(i)}} :
           lo \in SegIds, hi \in SegIds}

\* the decoded media playlists whose URIs may differ in the directory only
PlaylistsAnyDir ==
    {<<>>} \cup
    UNION {{[k \in 1..(hi - lo + 1) |-> Segment(lo + k - 1, f[lo + k - 1])] :
               f \in {g \in [lo..hi -> 0..(MaxSeg + 1)] :
                          \A i \in lo..hi : g[i] \in SegURIsAnyDir(i)}} :
           lo \in SegIds, hi \in SegIds}

\* a playlist that names more segments than the workers and the queue hold
LongPlaylist == [k \in LongSegIds |-> Segment(k, k)]

\* what one getSegments call can meet
PollErrors == {"transport", "decode", "notMedia"}

\* the state AudioSpaceById reports, or the query's error
SpaceStates == {"error", "Running", "Ended"}

\* ------------------------------------------------------------ getSegments
\* u.Parse(seg.URI): nil with an error for a URI it rejects
ParseURI(uri) == IF uri = BadURI THEN NilURL ELSE uri

\* the item appended to urls; SeqId is carried for the history only
Item(seg) == [SeqId |-> seg.SeqId, url |-> ParseURI(seg.URI)]

\* mutant: the playlist's segments are never looked up in d.seq
seqLoadNever(seen, id) == FALSE

\* d.seq.Load(seg.SeqId): ok
seqLoad(seen, id) == id \in seen

\* the loop of getSegments over mediaPlaylist.Segments
RECURSIVE scanSegments(_, _, _)
scanSegments(segs, seen, acc) ==
    IF segs = <<>> THEN [seq |-> seen, urls |-> acc]
    ELSE LET seg == Head(segs) IN
         IF seqLoad(seen, seg.SeqId)
         THEN scanSegments(Tail(segs), seen, acc)
         ELSE scanSegments(Tail(segs), seen \cup {seg.SeqId},
                           Append(acc, Item(seg)))

\* mutant: the segments are taken from the end of the playlist
getSegmentsReversed(playlist, seen) ==
    scanSegments([k \in 1..Len(playlist) |->
                     playlist[Len(playlist) + 1 - k]], seen, <<>>)

\* mutant: the SeqIds stored by the earlier polls are forgotten
getSegmentsForgetful(playlist, seen) == scanSegments(playlist, {}, <<>>)

getSegments(playlist, seen) == scanSegments(playlist, seen, <<>>)

\* history: the SeqIds of the playlist that are not in order yet, appended
\* to it in playlist order
RECURSIVE firstOccurrences(_, _)
firstOccurrences(order, playlist) ==
    IF playlist = <<>> THEN order
    ELSE IF \E k \in 1..Len(order) : order[k] = Head(playlist).SeqId
         THEN firstOccurrences(order, Tail(playlist))
         ELSE firstOccurrences(Append(order, Head(playlist).SeqId),
                               Tail(playlist))

\* mutant: the limit is compared with >=
exceedErrorLimitAtLimit(n) == n >= playlistDownloadErrorLimit

\* errCount > playlistDownloadErrorLimit
exceedErrorLimit(n) == n > playlistDownloadErrorLimit

\* the callers a client can have
AllCallers == {1, 2}

\* the error values
errNil == [kind |-> "nil"]
errPlain(what) == [kind |-> "error", what |-> what]
QueryError(errors, status) ==
    [kind |-> "QueryError", Errors |-> errors, StatusCode |-> status]

\* what GetStreamURL returns: an error, or source.location of the decoded
\* body, which is empty when the body has no such field
StreamResults == [called : {TRUE}, err : {TRUE}, location : {""}] \cup
                 [called : {TRUE}, err : {FALSE}, location : {"", "u"}]
\* GetStreamURL was not called
NoStream == [called |-> FALSE, err |-> FALSE, location |-> ""]

\* ------------------------------------------------------ extractOperations
\* the objects around the occurrences of operationName: in the source, in
\* order.  "op": an object literal with queryId, operationName and
\* operationType as string literals; "partial": an object literal that lacks
\* one of them; "malformed": braces that balance around text the parser
\* rejects; "unclosed": a brace that is not closed before the source ends;
\* "nobrace": an occurrence with no brace before it in what is left of the
\* source.
QueryIDs == {"q1", "q2"}
Fragments ==
    [kind : {"op"}, name : {"AudioSpaceById", "UserByRestId"}, id : QueryIDs]
    \cup [kind : {"partial", "malformed", "unclosed", "nobrace"},
          name : {""}, id : {""}]
\* the sequences of at most n fragments
SourcesUpTo(n) == UNION {[1..k -> Fragments] : k \in 0..n}
Sources == SourcesUpTo(MaxFrag)

\* operations[op.OperationName] = &op
mapStore(m, name, id) ==
    [n \in DOMAIN m \cup {name} |-> IF n = name THEN id ELSE m[n]]

\* the loop of extractOperations: src[e] is read past the end of the source
\* when a brace is not closed (a run-time panic); with no brace before the
\* occurrence s is -1, and either src[e] is read past the end or src[s:e] is
\* sliced from -1 (a run-time panic); a parser error ends the loop; an
\* object without the three fields is skipped
RECURSIVE scanSource(_, _)
scanSource(frags, acc) ==
    IF frags = <<>> THEN [ops |-> acc, panic |-> FALSE]
    ELSE LET f == Head(frags) IN
         CASE f.kind = "unclosed" -> [ops |-> acc, panic |-> TRUE]
           [] f.kind = "nobrace" -> [ops |-> acc, panic |-> TRUE]
           [] f.kind = "malformed" -> [ops |-> acc, panic |-> FALSE]
           [] f.kind = "partial" -> scanSource(Tail(frags), acc)
           [] OTHER -> scanSource(Tail(frags), mapStore(acc, f.name, f.id))

extractOperations(source) == scanSource(source, <<>>)

\* ----------------------------------------------------- appendMissingParam
\* a QueryParameter: Name and Value, a map (not nil, as json.Unmarshal makes
\* it in buildAudioSpaceInfoParams) from keys to values
ParamNames == {"variables", "features", "fieldToggles"}
ParamKeys == {"a", "b"}
ParamMaps == UNION {[K -> {TRUE}] : K \in SUBSET ParamKeys}
QueryParameters == [Name : ParamNames, Value : ParamMaps]
ParamLists == UNION {[1..k -> QueryParameters] : k \in 0..MaxParams}
\* the arguments of a call; getAudioSpaceInfo passes the value false
AppendInputs == [params : ParamLists, paramKey : ParamNames, key : ParamKeys]
\* appendMissingParam is not called
NoAppend == [params |-> <<>>, paramKey |-> "", key |-> ""]

\* the first entry named paramKey gets Value[key] = value in place; when
\* there is none the new entry is appended to the copy p of the slice
\* header, and params, whose length is unchanged, is returned
appendMissingParam(params, paramKey, key, value) ==
    LET hits == {i \in 1..Len(params) : params[i].Name = paramKey} IN
    IF hits = {} THEN params
    ELSE LET idx == CHOOSE i \in hits : \A j \in hits : i <= j
         IN  [params EXCEPT ![idx].Value = mapStore(@, key, value)]

\* no response received yet
NoResponse ==
    [transport |-> FALSE, status |-> 0, decodes |-> FALSE, errors |-> <<>>]

\* --------------------------------------------------------------- the state
\* cs: the callers of the client; r: where run is; obs: the order of
\* discovery is recorded; S: the sources extractOperations may be given;
\* A: the arguments appendMissingParam may be given
InitAll(cs, r, obs, S, A) ==
    /\ seq = {}
    /\ halt = "nil"
    /\ dlCh = <<>>
    /\ dlChClosed = FALSE
    /\ Done = "nil"
    /\ Parallel = DefaultParallel
    /\ ppc = "none"
    /\ errCount = 0
    /\ urls = <<>>
    /\ pTick = FALSE
    /\ busy = {}
    /\ exitedWorkers = 0
    /\ mpc = "start"
    /\ mTick = FALSE
    /\ mStopped = FALSE
    /\ crashed = FALSE
    /\ enqueued = [i \in SegIds \cup LongSegIds |-> 0]
    /\ haltCalls = 0
    /\ selfHalted = FALSE
    /\ failRun = 0
    /\ pollAfterHalt = FALSE
    /\ workAfterDone = FALSE
    /\ repeated = FALSE
    /\ pollNotMedia = FALSE
    /\ attempts = [i \in SegIds \cup LongSegIds |-> 0]
    /\ written = {}
    /\ operations = <<>>
    /\ bearerToken = ""
    /\ guestToken = ""
    /\ initState = "new"
    /\ callers = cs
    /\ qpc = [c \in AllCallers |-> "idle"]
    /\ qname = [c \in AllCallers |-> ""]
    /\ qerr = [c \in AllCallers |-> errNil]
    /\ nreq = [c \in AllCallers |-> 0]
    /\ nrefresh = [c \in AllCallers |-> 0]
    /\ errs = [c \in AllCallers |-> <<>>]
    /\ sent = [c \in AllCallers |-> ""]
    /\ issued = [c \in AllCallers |-> ""]
    /\ last = [c \in AllCallers |-> [resp |-> NoResponse, err |-> errNil]]
    /\ initRun = [steps |-> <<>>, err |-> "", extracted |-> FALSE,
                  found |-> <<>>]
    /\ lastQuery = ""
    /\ rpc = r
    /\ stream = NoStream
    /\ runInfo = [state |-> "", owner |-> FALSE]
    /\ observe = obs
    /\ found = <<>>
    /\ enqSeq = <<>>
    /\ failedDl = {}
    /\ metFailed = FALSE
    /\ haltInSend = FALSE
    /\ src \in S
    /\ catalog = <<>>
    /\ exPc = IF S = {<<>>} THEN "idle" ELSE "called"
    /\ apIn \in A
    /\ apOut = <<>>
    /\ apPc = IF A = {NoAppend} THEN "idle" ELSE "called"

\* appendMissingParam is not called
InitWith(cs, r, obs, S) == InitAll(cs, r, obs, S, {NoAppend})

\* NewDownloader and NewClient have run; one caller; run is not part of the
\* behaviour
Init == InitWith({1}, "none", FALSE, {<<>>})

idleWorkers == Parallel - Cardinality(busy) - exitedWorkers

\* ------------------------------------------------------------------ Start
\* the owner of the Downloader assigns its exported field Parallel before
\* it calls Start
SetParallel(n) ==
    /\ ppc = "none"
    /\ mpc = "start"
    /\ n \in 0..DefaultParallel
    /\ Parallel' = n
    /\ UNCHANGED <<seq, halt, dlCh, dlChClosed, Done, ppc, errCount, urls,
                   pTick, busy, exitedWorkers, mpc, mTick, mStopped, crashed>>
    /\ UNCHANGED hvars
    /\ UNCHANGED cvars
    /\ UNCHANGED <<rvars, ovars, evars>>

\* download calls dl.Start and makes its ticker
Start ==
    /\ ~crashed
    /\ mpc = "start"
    /\ rpc \in {"none", "download"}
    /\ rpc' = IF rpc = "none" THEN rpc ELSE "started"
    /\ seq' = {}
    /\ Done' = "open"
    /\ halt' = "open"
    /\ dlCh' = <<>>
    /\ ppc' = "select"
    /\ errCount' = 0
    /\ mpc' = "select"
    /\ UNCHANGED <<dlChClosed, Parallel, urls, pTick, busy, exitedWorkers,
                   mTick, mStopped, crashed>>
    /\ UNCHANGED hvars
    /\ UNCHANGED cvars
    /\ UNCHANGED <<stream, runInfo, ovars, evars>>

\* ------------------------------------------------------------------- Halt
\* close(d.halt): panics when d.halt is closed already
haltPanics(h) == h # "open"

\* ----------------------------------------------------------------- poller
\* the runtime sends a tick on the poller's ticker.C while the poller is
\* not waiting in its select: the tick is buffered (buffer 1, else dropped)
PollerTickerFire ==
    /\ ~crashed
    /\ ppc \in {"getSegments", "send"}
    /\ ~pTick
    /\ pTick' = TRUE
    /\ UNCHANGED <<seq, halt, dlCh, dlChClosed, Done, Parallel, ppc, errCount,
                   urls, busy, exitedWorkers, mpc, mTick, mStopped, crashed>>
    /\ UNCHANGED hvars
    /\ UNCHANGED cvars
    /\ UNCHANGED <<rvars, ovars, evars>>

\* mutant: d.halt is also waited for while the URLs are sent
atSelectOrSending(pc) == pc \in {"select", "send"}

\* the poller waits for d.halt in its select only; the sends of
\* for _, u := range urls { d.dlCh <- u } are not in a select
atSelect(pc) == pc = "select"

\* select: case <-d.halt: break loop; the deferred close(d.dlCh) runs
PollerHaltCase ==
    /\ ~crashed
    /\ atSelect(ppc)
    /\ halt = "closed"
    /\ ppc' = "exited"
    /\ dlChClosed' = TRUE
    /\ UNCHANGED <<seq, halt, dlCh, Done, Parallel, errCount, urls, pTick,
                   busy, exitedWorkers, mpc, mTick, mStopped, crashed>>
    /\ UNCHANGED hvars
    /\ UNCHANGED cvars
    /\ UNCHANGED <<rvars, ovars, evars>>

\* select: case <-ticker.C: getSegments sends its request.  The case is
\* taken with a buffered tick, or by the next tick when the poller waits in
\* the select with d.halt open.  Go chooses among the ready cases of a select
\* at random, so with a tick buffered a closed d.halt does not disable it.
PollerTickCase ==
    /\ ~crashed
    /\ ppc = "select"
    /\ pTick \/ halt = "open"
    /\ pTick' = FALSE
    /\ ppc' = "getSegments"
    /\ pollAfterHalt' = (pollAfterHalt \/ halt = "closed")
    /\ pollNotMedia' = FALSE
    /\ UNCHANGED <<seq, halt, dlCh, dlChClosed, Done, Parallel, errCount,
                   urls, busy, exitedWorkers, mpc, mTick, mStopped, crashed>>
    /\ UNCHANGED <<enqueued, haltCalls, selfHalted, failRun, workAfterDone,
                   repeated, attempts, written, lastQuery>>
    /\ UNCHANGED cvars
    /\ UNCHANGED <<rvars, ovars, evars>>

\* mutant: a failed poll is not counted
countErrorNot(n) == n

\* errCount += 1
countError(n) == n + 1

\* getSegments returns an error
PollerPollFailed(e) ==
    /\ ~crashed
    /\ ppc = "getSegments"
    /\ e \in PollErrors
    /\ errCount' = countError(errCount)
    /\ failRun' = failRun + 1
    /\ pollNotMedia' = (e = "notMedia")
    /\ IF exceedErrorLimit(errCount')
       THEN \* d.Halt(); break loop
            /\ selfHalted' = TRUE
            /\ haltCalls' = haltCalls + 1
            /\ crashed' = haltPanics(halt)
            /\ halt' = "closed"
            /\ ppc' = "exited"
            /\ dlChClosed' = TRUE
       ELSE /\ ppc' = "select"
            /\ UNCHANGED <<selfHalted, haltCalls, crashed, halt, dlChClosed>>
    /\ UNCHANGED <<seq, dlCh, Done, Parallel, urls, pTick, busy,
                   exitedWorkers, mpc, mTick, mStopped>>
    /\ UNCHANGED <<enqueued, pollAfterHalt, workAfterDone, repeated, attempts,
                   written, lastQuery>>
    /\ UNCHANGED cvars
    /\ UNCHANGED <<rvars, ovars, evars>>

\* getSegments returns the new segments' URLs
PollerPollOk(playlist) ==
    /\ ~crashed
    /\ ppc = "getSegments"
    /\ playlist \in PlaylistsAnyDir \cup {LongPlaylist}
    \* d.url is the stream URL of run: client.Do fails on an empty URL
    /\ rpc = "none" \/ stream.location # ""
    /\ LET r == getSegments(playlist, seq) IN
       /\ seq' = r.seq
       /\ urls' = r.urls
       /\ ppc' = IF r.urls = <<>> THEN "select" ELSE "send"
    /\ errCount' = 0
    /\ failRun' = 0
    /\ repeated' = (repeated \/
                       \E k \in 1..Len(playlist) : playlist[k].SeqId \in seq)
    /\ UNCHANGED <<halt, dlCh, dlChClosed, Done, Parallel, pTick, busy,
                   exitedWorkers, mpc, mTick, mStopped, crashed>>
    /\ pollNotMedia' = FALSE
    /\ UNCHANGED <<enqueued, haltCalls, selfHalted, pollAfterHalt,
                   workAfterDone, attempts, written, lastQuery>>
    /\ UNCHANGED cvars
    /\ found' = IF observe THEN firstOccurrences(found, playlist) ELSE found
    /\ metFailed' = IF observe
                    THEN metFailed \/ \E k \in 1..Len(playlist) :
                                         playlist[k].SeqId \in failedDl
                    ELSE metFailed
    /\ UNCHANGED <<observe, enqSeq, failedDl, haltInSend>>
    /\ UNCHANGED <<rvars, evars>>

\* mutant: the channel takes any number of items
canSendAlways(ch) == TRUE

\* a send on d.dlCh, made with capacity 10, proceeds when the buffer has room
canSend(ch) == Len(ch) < dlChCap

\* d.dlCh <- u: blocks while the buffer is full
PollerSend ==
    /\ ~crashed
    /\ ppc = "send"
    /\ canSend(dlCh)
    /\ dlCh' = Append(dlCh, Head(urls))
    /\ urls' = Tail(urls)
    /\ ppc' = IF Tail(urls) = <<>> THEN "select" ELSE "send"
    /\ enqueued' = [enqueued EXCEPT ![Head(urls).SeqId] = @ + 1]
    /\ UNCHANGED <<seq, halt, dlChClosed, Done, Parallel, errCount, pTick,
                   busy, exitedWorkers, mpc, mTick, mStopped, crashed>>
    /\ UNCHANGED <<haltCalls, selfHalted, failRun, pollAfterHalt,
                   workAfterDone, repeated, pollNotMedia, attempts, written,
                   lastQuery>>
    /\ UNCHANGED cvars
    /\ enqSeq' = IF observe THEN Append(enqSeq, Head(urls).SeqId) ELSE enqSeq
    /\ UNCHANGED <<observe, found, failedDl, metFailed, haltInSend>>
    /\ UNCHANGED <<rvars, evars>>

\* ---------------------------------------------------------------- workers
\* downloadSegment: filepath.Join(d.output, filepath.Base(u.Path)); d.output
\* is the same for every segment
outputPath(u) == Base(u)

\* for u := range d.dlCh: a waiting worker receives the oldest item and
\* enters downloadSegment, whose first statement is u.String()
WorkerReceive ==
    /\ ~crashed
    /\ ppc # "none"
    /\ idleWorkers > 0
    /\ dlCh # <<>>
    /\ dlCh' = Tail(dlCh)
    /\ attempts' = [attempts EXCEPT ![Head(dlCh).SeqId] = @ + 1]
    /\ IF Head(dlCh).url = NilURL
       THEN /\ crashed' = TRUE
            /\ UNCHANGED <<busy, written>>
       ELSE \* os.OpenFile(p, O_WRONLY|O_CREATE|O_TRUNC), then the request
            /\ busy' = busy \cup {Head(dlCh)}
            /\ written' = written \cup
                   {[SeqId |-> Head(dlCh).SeqId,
                     path |-> outputPath(Head(dlCh).url)]}
            /\ UNCHANGED crashed
    /\ workAfterDone' = (workAfterDone \/ Done = "closed")
    /\ UNCHANGED <<seq, halt, dlChClosed, Done, Parallel, ppc, errCount, urls,
                   pTick, exitedWorkers, mpc, mTick, mStopped>>
    /\ UNCHANGED <<enqueued, haltCalls, selfHalted, failRun, pollAfterHalt,
                   repeated, pollNotMedia, lastQuery>>
    /\ UNCHANGED cvars
    /\ UNCHANGED <<rvars, ovars, evars>>

\* downloadSegment returns, with or without an error; the worker loops
WorkerDownloadReturn(item, ok) ==
    /\ ~crashed
    /\ item \in busy
    /\ ok \in BOOLEAN
    /\ busy' = busy \ {item}
    /\ workAfterDone' = (workAfterDone \/ Done = "closed")
    /\ UNCHANGED <<seq, halt, dlCh, dlChClosed, Done, Parallel, ppc, errCount,
                   urls, pTick, exitedWorkers, mpc, mTick, mStopped, crashed>>
    /\ UNCHANGED <<enqueued, haltCalls, selfHalted, failRun, pollAfterHalt,
                   repeated, pollNotMedia, attempts, written, lastQuery>>
    /\ UNCHANGED cvars
    /\ failedDl' = IF observe /\ ~ok THEN failedDl \cup {item.SeqId}
                   ELSE failedDl
    /\ UNCHANGED <<observe, found, enqSeq, metFailed, haltInSend>>
    /\ UNCHANGED <<rvars, evars>>

\* range over a closed and drained d.dlCh ends: defer d.wg.Done()
WorkerExit ==
    /\ ~crashed
    /\ ppc # "none"
    /\ idleWorkers > 0
    /\ dlCh = <<>>
    /\ dlChClosed
    /\ exitedWorkers' = exitedWorkers + 1
    /\ UNCHANGED <<seq, halt, dlCh, dlChClosed, Done, Parallel, ppc, errCount,
                   urls, pTick, busy, mpc, mTick, mStopped, crashed>>
    /\ UNCHANGED hvars
    /\ UNCHANGED cvars
    /\ UNCHANGED <<rvars, ovars, evars>>

\* mutant: the wait group counts one worker only
wgWaitOneWorker(exited, parallel) == exited >= 1

\* d.wg.Wait() returns: the counter set by d.wg.Add(d.Parallel) is at zero
wgWaitReturns(exited, parallel) == exited = parallel

\* the goroutine of Start that waits for the workers: close(d.Done)
CloseDone ==
    /\ ~crashed
    /\ Done = "open"
    /\ wgWaitReturns(exitedWorkers, Parallel)
    /\ Done' = "closed"
    /\ UNCHANGED <<seq, halt, dlCh, dlChClosed, Parallel, ppc, errCount, urls,
                   pTick, busy, exitedWorkers, mpc, mTick, mStopped, crashed>>
    /\ UNCHANGED hvars
    /\ UNCHANGED cvars
    /\ UNCHANGED <<rvars, ovars, evars>>

\* --------------------------------------------------------------- download
\* the runtime sends a tick on download's ticker.C while download is not
\* waiting in its select: the tick is buffered
MonitorTickerFire ==
    /\ ~crashed
    /\ mpc = "query"
    /\ ~mStopped
    /\ ~mTick
    /\ mTick' = TRUE
    /\ UNCHANGED <<seq, halt, dlCh, dlChClosed, Done, Parallel, ppc, errCount,
                   urls, pTick, busy, exitedWorkers, mpc, mStopped, crashed>>
    /\ UNCHANGED hvars
    /\ UNCHANGED cvars
    /\ UNCHANGED <<rvars, ovars, evars>>

\* select: case <-ticker.C: getAudioSpaceInfo sends its query.  The case is
\* taken with a buffered tick (ticker.Stop does not drain ticker.C), or by
\* the next tick when download waits in the select with dl.Done open.
MonitorTickCase ==
    /\ ~crashed
    /\ mpc = "select"
    /\ mTick \/ (~mStopped /\ Done = "open")
    /\ mTick' = FALSE
    /\ mpc' = "query"
    /\ lastQuery' = ""
    /\ UNCHANGED <<seq, halt, dlCh, dlChClosed, Done, Parallel, ppc, errCount,
                   urls, pTick, busy, exitedWorkers, mStopped, crashed>>
    /\ UNCHANGED <<enqueued, haltCalls, selfHalted, failRun, pollAfterHalt,
                   workAfterDone, repeated, pollNotMedia, attempts, written>>
    /\ UNCHANGED cvars
    /\ UNCHANGED <<rvars, ovars, evars>>

\* mutant: every state counts as ended
isSpaceEndedAlways(state) == TRUE

\* main.go:302-304
isSpaceEnded(state) == state = "Ended"

\* getAudioSpaceInfo returns
MonitorQueryReturn(state) ==
    /\ ~crashed
    /\ mpc = "query"
    /\ state \in SpaceStates
    /\ mpc' = "select"
    /\ IF state # "error" /\ isSpaceEnded(state)
       THEN \* ticker.Stop(); dl.Halt()
            /\ mStopped' = TRUE
            /\ haltCalls' = haltCalls + 1
            /\ crashed' = haltPanics(halt)
            /\ halt' = "closed"
       ELSE UNCHANGED <<mStopped, haltCalls, crashed, halt>>
    /\ UNCHANGED <<seq, dlCh, dlChClosed, Done, Parallel, ppc, errCount, urls,
                   pTick, busy, exitedWorkers, mTick>>
    /\ lastQuery' = IF observe THEN state ELSE lastQuery
    /\ UNCHANGED <<enqueued, selfHalted, failRun, pollAfterHalt,
                   workAfterDone, repeated, pollNotMedia, attempts, written>>
    /\ UNCHANGED cvars
    /\ haltInSend' = IF /\ observe
                        /\ state # "error" /\ isSpaceEnded(state)
                        /\ ppc = "send"
                     THEN TRUE ELSE haltInSend
    /\ UNCHANGED <<observe, found, enqSeq, failedDl, metFailed>>
    /\ UNCHANGED <<rvars, evars>>

\* select: case <-dl.Done: return nil
MonitorDoneCase ==
    /\ ~crashed
    /\ mpc = "select"
    /\ Done = "closed"
    /\ mpc' = "returned"
    /\ UNCHANGED <<seq, halt, dlCh, dlChClosed, Done, Parallel, ppc, errCount,
                   urls, pTick, busy, exitedWorkers, mTick, mStopped, crashed>>
    /\ UNCHANGED hvars
    /\ UNCHANGED cvars
    /\ UNCHANGED <<rvars, ovars, evars>>

\* ------------------------------------------------------------- the client
queryErrBadGuestToken == "Bad guest token"

OpNames == {"AudioSpaceById", "UserByRestId"}
QueryID(name) == IF name = "AudioSpaceById" THEN "q1" ELSE "q2"
\* what extractOperations can return: any part of the operations
Catalogs == {[n \in S |-> QueryID(n)] : S \in SUBSET OpNames}

BearerTokens == {"AAAAAAAAAA"}
\* guest/activate.json answers any token, also none: GuestToken stays ""
GuestTokens == {"", "g1", "g2"}

\* the messages of the entries of "errors"
Messages == {"Bad guest token", "BAD GUEST TOKEN", "Rate limit exceeded"}
ErrorLists == {<<>>, <<"BAD GUEST TOKEN">>, <<"Rate limit exceeded">>,
               <<"Rate limit exceeded", "Bad guest token">>}
StatusCodes == {200, 302, 403}

\* what c.get returns: a transport error, or a response whose body decodes
\* (into m, errs and out) or does not; errs stays empty when it does not
Responses ==
    {[transport |-> TRUE, status |-> 0, decodes |-> FALSE, errors |-> <<>>]}
    \cup [transport : {FALSE}, status : StatusCodes, decodes : {FALSE},
          errors : {<<>>}]
    \cup [transport : {FALSE}, status : StatusCodes, decodes : {TRUE},
          errors : ErrorLists]

\* what getGuestToken returns
ActivateResults == [err : {TRUE}, token : {""}] \cup
                   [err : {FALSE}, token : GuestTokens]

\* strings.ToLower on the strings of the model
ToLower(str) ==
    CASE str = "Bad guest token" -> "bad guest token"
      [] str = "BAD GUEST TOKEN" -> "bad guest token"
      [] str = "Rate limit exceeded" -> "rate limit exceeded"
      [] OTHER -> str

\* mutant: the messages are compared byte by byte
EqualFoldExact(a, b) == a = b

\* strings.EqualFold
EqualFold(a, b) == ToLower(a) = ToLower(b)

parseResponse(resp) ==
    IF ~resp.decodes THEN errPlain("decode")
    ELSE IF resp.status = 200 THEN errNil
    ELSE IF Len(resp.errors) > 0 \/ resp.status \div 100 \in {4, 5}
         THEN QueryError(resp.errors, resp.status)
         ELSE errNil

\* mutant: any QueryError starts the refresh
isBadGuestTokenAny(err) == err.kind = "QueryError"

\* Query, lines 411-420: err is a *QueryError with a bad-guest-token entry
isBadGuestToken(err) ==
    /\ err.kind = "QueryError"
    /\ \E k \in 1..Len(err.Errors) :
           EqualFold(err.Errors[k], queryErrBadGuestToken)

\* the history is kept up to MaxRequests
Count(n) == IF n < MaxRequests THEN n + 1 ELSE n
Record(h, x) == IF Len(h) < MaxRequests THEN Append(h, x) ELSE h

\* the steps of Initialize, in order
InitSteps == <<"getIndex", "getMainJsURL", "getApiJsURL", "getOperations",
               "getBearerToken", "refreshGuestToken">>

\* mutant: getOperations accepts an empty catalog
failStepEmptyOk(failAt, ops) == failAt

\* the step at which Initialize returns an error, 0 for none: getOperations
\* fails on an empty catalog too
failStep(failAt, ops) ==
    IF failAt \in 1..3 THEN failAt
    ELSE IF failAt = 4 \/ ops = <<>> THEN 4
    ELSE failAt

\* mutant: Initialize goes on after a step's error
stepsPerformedAll(f) == InitSteps

\* the steps Initialize performs when step f returns an error (0: none):
\* each step is followed by if err != nil { return err }
stepsPerformed(f) ==
    IF f = 0 THEN InitSteps ELSE SubSeq(InitSteps, 1, f)

\* the error Initialize returns
initError(failAt, f) ==
    IF f = 0 THEN ""
    ELSE IF f = 4 /\ failAt # 4 THEN "operations not found"
    ELSE InitSteps[f]

\* run() calls client.Initialize() once, before any query.  failAt names the
\* step that fails, 0 for none; ops, bearer and guest are what the steps
\* that succeed obtain.
Initialize(failAt, ops, bearer, guest) ==
    /\ initState = "new"
    /\ rpc \in {"none", "run"}
    /\ failAt \in 0..Len(InitSteps)
    /\ ops \in Catalogs
    /\ bearer \in BearerTokens
    /\ guest \in GuestTokens
    /\ LET f == failStep(failAt, ops) IN
       \* line 268: c.operations = operations
       /\ operations' = IF f = 0 \/ f > 4 THEN ops ELSE operations
       \* line 270: c.bearerToken, err = c.getBearerToken(mainJsURL)
       /\ bearerToken' = IF f = 5 THEN ""
                         ELSE IF f = 0 \/ f = 6 THEN bearer
                         ELSE bearerToken
       \* line 275: c.refreshGuestToken()
       /\ guestToken' = IF f = 0 THEN guest ELSE guestToken
       /\ initState' = IF f = 0 THEN "ok" ELSE "failed"
       /\ initRun' = [steps |-> stepsPerformed(f),
                      err |-> initError(failAt, f),
                      extracted |-> failAt \notin 1..4,
                      found |-> IF failAt \notin 1..4 THEN ops ELSE <<>>]
    /\ UNCHANGED <<callers, qpc, qname, qerr, nreq, nrefresh, errs, sent,
                   issued, last>>
    /\ UNCHANGED <<dvars, hvars>>
    /\ rpc' = IF rpc = "none" THEN rpc
              ELSE IF failStep(failAt, ops) = 0 THEN "info" ELSE "failed"
    /\ UNCHANGED <<stream, runInfo, ovars, evars>>

\* c.get: the request carries c.guestToken
requestToken(token) == token

\* mutant: the refresh does not store the token it obtained
storeGuestTokenDropped(old, token) == old

\* refreshGuestToken, line 307: c.guestToken = token
storeGuestToken(old, token) == token

\* mutant: the lookup finds every name
opLookupAlways(ops, name) == TRUE

\* Query, line 389: op, ok := c.operations[name]; a nil map has no entry
opLookup(ops, name) == name \in DOMAIN ops

\* Query is called: the lookup, and the first request
QueryCall(c, name) ==
    /\ c \in callers
    /\ qpc[c] = "idle"
    /\ name \in OpNames
    /\ qname' = [qname EXCEPT ![c] = name]
    /\ IF ~opLookup(operations, name)
       THEN /\ qpc' = [qpc EXCEPT ![c] = "done"]
            /\ qerr' = [qerr EXCEPT ![c] = errPlain("operation not found")]
            /\ UNCHANGED <<nreq, sent>>
       ELSE /\ qpc' = [qpc EXCEPT ![c] = "request"]
            /\ nreq' = [nreq EXCEPT ![c] = Count(@)]
            /\ sent' = [sent EXCEPT ![c] = requestToken(guestToken)]
            /\ UNCHANGED qerr
    /\ UNCHANGED <<operations, bearerToken, guestToken, initState, callers,
                   nrefresh, errs, issued, last, initRun>>
    /\ UNCHANGED <<dvars, hvars>>
    /\ UNCHANGED <<rvars, ovars, evars>>

\* c.get returns; parseResponse; a bad-guest-token error starts the refresh
QueryResponse(c, resp) ==
    /\ qpc[c] = "request"
    /\ resp \in Responses
    /\ LET err == IF resp.transport THEN errPlain("transport")
                  ELSE parseResponse(resp)
       IN
       /\ errs' = [errs EXCEPT ![c] = Record(@, err)]
       /\ last' = [last EXCEPT ![c] = [resp |-> resp, err |-> err]]
       /\ IF isBadGuestToken(err)
          THEN /\ qpc' = [qpc EXCEPT ![c] = "refresh"]
               /\ UNCHANGED qerr
          ELSE /\ qpc' = [qpc EXCEPT ![c] = "done"]
               /\ qerr' = [qerr EXCEPT ![c] = err]
    /\ UNCHANGED <<operations, bearerToken, guestToken, initState, callers,
                   qname, nreq, nrefresh, sent, issued, initRun>>
    /\ UNCHANGED <<dvars, hvars>>
    /\ UNCHANGED <<rvars, ovars, evars>>

\* getGuestToken returns; refreshGuestToken stores the token and Query calls
\* itself: return c.Query(name, params, out)
QueryRefreshReturn(c, res) ==
    /\ qpc[c] = "refresh"
    /\ res \in ActivateResults
    /\ IF res.err
       THEN /\ qpc' = [qpc EXCEPT ![c] = "done"]
            /\ qerr' = [qerr EXCEPT ![c] = errPlain("guest token")]
            /\ UNCHANGED <<guestToken, nrefresh, issued, nreq, sent>>
       ELSE /\ guestToken' = storeGuestToken(guestToken, res.token)
            /\ nrefresh' = [nrefresh EXCEPT ![c] = Count(@)]
            /\ issued' = [issued EXCEPT ![c] = res.token]
            /\ qpc' = [qpc EXCEPT ![c] = "request"]
            /\ nreq' = [nreq EXCEPT ![c] = Count(@)]
            /\ sent' = [sent EXCEPT ![c] = requestToken(guestToken')]
            /\ UNCHANGED qerr
    /\ UNCHANGED <<operations, bearerToken, initState, callers, qname, errs,
                   last, initRun>>
    /\ UNCHANGED <<dvars, hvars>>
    /\ UNCHANGED <<rvars, ovars, evars>>

\* GetStreamURL: one request, sent with the client's tokens; the body is
\* decoded whatever the status, and source.location is returned
GetStreamURL(res) ==
    /\ res \in StreamResults
    /\ ~stream.called
    /\ rpc \in {"none", "stream"}
    /\ stream' = res
    /\ rpc' = IF rpc = "none" THEN rpc
              ELSE IF res.err THEN "failed" ELSE "download"
    /\ UNCHANGED cvars
    /\ UNCHANGED <<dvars, hvars>>
    /\ UNCHANGED <<runInfo, ovars, evars>>

\* what run reads in the response of AudioSpaceById: metadata.state, ""
\* when the body has no such field, and whether an admin has the creator's
\* rest_id
InfoStates == {"", "NotStarted", "Running", "Ended"}

isSpaceAvailable(state) == state \in {"Running", "Ended"}

\* run: getAudioSpaceInfo has returned; isSpaceAvailable and GetOwnerUser.
\* The messages of ErrorLists do not match errRe, so that getAudioSpaceInfo
\* returns the QueryError it got.
RunInfoReturn(state, owner) ==
    /\ rpc = "info"
    /\ qpc[1] = "done"
    /\ state \in InfoStates
    /\ owner \in BOOLEAN
    /\ IF qerr[1] # errNil
       THEN /\ rpc' = "failed"
            /\ UNCHANGED runInfo
       ELSE /\ runInfo' = [state |-> state, owner |-> owner]
            /\ rpc' = IF isSpaceAvailable(state) /\ owner THEN "files"
                      ELSE "failed"
    \* the call of Query is over
    /\ qpc' = [qpc EXCEPT ![1] = "idle"]
    /\ qname' = [qname EXCEPT ![1] = ""]
    /\ qerr' = [qerr EXCEPT ![1] = errNil]
    /\ nreq' = [nreq EXCEPT ![1] = 0]
    /\ nrefresh' = [nrefresh EXCEPT ![1] = 0]
    /\ errs' = [errs EXCEPT ![1] = <<>>]
    /\ sent' = [sent EXCEPT ![1] = ""]
    /\ issued' = [issued EXCEPT ![1] = ""]
    /\ last' = [last EXCEPT ![1] = [resp |-> NoResponse, err |-> errNil]]
    /\ UNCHANGED <<operations, bearerToken, guestToken, initState, callers,
                   initRun>>
    /\ UNCHANGED stream
    /\ UNCHANGED <<dvars, hvars>>
    /\ UNCHANGED <<ovars, evars>>

\* run: os.MkdirAll(dir), os.Create of the log, saveMetadata
RunFiles(ok) ==
    /\ rpc = "files"
    /\ ok \in BOOLEAN
    /\ rpc' = IF ok THEN "stream" ELSE "failed"
    /\ UNCHANGED <<stream, runInfo>>
    /\ UNCHANGED cvars
    /\ UNCHANGED <<dvars, hvars>>
    /\ UNCHANGED <<ovars, evars>>

\* the caller takes the result; its next call starts a new history
QueryReturn(c) ==
    /\ qpc[c] = "done"
    /\ qpc' = [qpc EXCEPT ![c] = "idle"]
    /\ qname' = [qname EXCEPT ![c] = ""]
    /\ qerr' = [qerr EXCEPT ![c] = errNil]
    /\ nreq' = [nreq EXCEPT ![c] = 0]
    /\ nrefresh' = [nrefresh EXCEPT ![c] = 0]
    /\ errs' = [errs EXCEPT ![c] = <<>>]
    /\ sent' = [sent EXCEPT ![c] = ""]
    /\ issued' = [issued EXCEPT ![c] = ""]
    /\ last' = [last EXCEPT ![c] = [resp |-> NoResponse, err |-> errNil]]
    /\ UNCHANGED <<operations, bearerToken, guestToken, initState, callers,
                   initRun>>
    /\ UNCHANGED <<dvars, hvars>>
    /\ UNCHANGED <<rvars, ovars, evars>>

QNext ==
    \/ \E failAt \in 0..Len(InitSteps), ops \in Catalogs,
          bearer \in BearerTokens, guest \in GuestTokens :
           Initialize(failAt, ops, bearer, guest)
    \/ \E c \in AllCallers, name \in OpNames : QueryCall(c, name)
    \/ \E c \in AllCallers, resp \in Responses : QueryResponse(c, resp)
    \/ \E c \in AllCallers, res \in ActivateResults :
           QueryRefreshReturn(c, res)
    \/ \E c \in AllCallers : QueryReturn(c)
    \/ \E res \in StreamResults : GetStreamURL(res)

\* the client alone
QSpec == Init /\ [][QNext]_vars

\* every HTTP request of a Query call returns
QFairSpec ==
    /\ Init
    /\ [][QNext]_vars
    /\ WF_vars(\E c \in AllCallers, resp \in Responses : QueryResponse(c, resp))
    /\ WF_vars(\E c \in AllCallers, res \in ActivateResults :
                   QueryRefreshReturn(c, res))

\* two goroutines call Query on one client: the answers are a success or a
\* bad-guest-token rejection
AuthResponses ==
    {r \in Responses :
        /\ ~r.transport
        /\ r.decodes
        /\ \/ r.status = 200 /\ r.errors = <<>>
           \/ r.status = 403 /\ r.errors = <<"BAD GUEST TOKEN">>}

ConcurrentQNext ==
    \/ \E ops \in Catalogs, bearer \in BearerTokens, guest \in GuestTokens :
           Initialize(0, ops, bearer, guest)
    \/ \E c \in AllCallers : QueryCall(c, "AudioSpaceById")
    \/ \E c \in AllCallers, resp \in AuthResponses : QueryResponse(c, resp)
    \/ \E c \in AllCallers, res \in ActivateResults :
           QueryRefreshReturn(c, res)
    \/ \E c \in AllCallers : QueryReturn(c)

ConcurrentQSpec ==
    InitWith(AllCallers, "none", FALSE, {<<>>}) /\ [][ConcurrentQNext]_vars

\* run, from client.Initialize to the poller and the workers dl.Start
\* launches
RunNext ==
    \/ \E failAt \in 0..Len(InitSteps), ops \in Catalogs,
          bearer \in BearerTokens, guest \in GuestTokens :
           Initialize(failAt, ops, bearer, guest)
    \/ rpc = "info" /\ QueryCall(1, "AudioSpaceById")
    \/ \E resp \in Responses : QueryResponse(1, resp)
    \/ \E res \in ActivateResults : QueryRefreshReturn(1, res)
    \/ \E state \in InfoStates, owner \in BOOLEAN : RunInfoReturn(state, owner)
    \/ \E ok \in BOOLEAN : RunFiles(ok)
    \/ \E res \in StreamResults : GetStreamURL(res)
    \/ Start
    \/ PollerTickCase
    \/ \E e \in PollErrors : PollerPollFailed(e)
    \/ \E p \in Playlists : PollerPollOk(p)
    \/ PollerSend
    \/ WorkerReceive
    \/ \E item \in busy, ok \in BOOLEAN : WorkerDownloadReturn(item, ok)

RunSpec == InitWith({1}, "run", FALSE, {<<>>}) /\ [][RunNext]_vars

\* extractOperations is called with src and returns, or panics
ExtractOperations ==
    /\ exPc = "called"
    /\ LET r == extractOperations(src) IN
       /\ catalog' = r.ops
       /\ exPc' = IF r.panic THEN "panicked" ELSE "returned"
    /\ UNCHANGED <<src, apIn, apOut, apPc>>
    /\ UNCHANGED <<dvars, hvars, cvars, rvars, ovars>>

ExtractNext == ExtractOperations

\* extractOperations alone, on every source
ExtractSpec == InitWith({1}, "none", FALSE, Sources) /\ [][ExtractNext]_vars

\* appendMissingParam is called with apIn and the value false, and returns
AppendMissingParam ==
    /\ apPc = "called"
    /\ apOut' = appendMissingParam(apIn.params, apIn.paramKey, apIn.key, FALSE)
    /\ apPc' = "returned"
    /\ UNCHANGED <<src, catalog, exPc, apIn>>
    /\ UNCHANGED <<dvars, hvars, cvars, rvars, ovars>>

AppendNext == AppendMissingParam

\* appendMissingParam alone, on every parameter list
AppendSpec ==
    InitAll({1}, "none", FALSE, {<<>>}, AppendInputs) /\ [][AppendNext]_vars

\* ------------------------------------------------------------------- Next
Next ==
    \/ Start
    \/ PollerTickerFire
    \/ PollerHaltCase
    \/ PollerTickCase
    \/ \E e \in PollErrors : PollerPollFailed(e)
    \/ \E p \in Playlists : PollerPollOk(p)
    \/ PollerSend
    \/ WorkerReceive
    \/ \E item \in busy, ok \in BOOLEAN : WorkerDownloadReturn(item, ok)
    \/ WorkerExit
    \/ CloseDone
    \/ MonitorTickerFire
    \/ MonitorTickCase
    \/ \E s \in SpaceStates : MonitorQueryReturn(s)
    \/ MonitorDoneCase

Spec == Init /\ [][Next]_vars

\* the same with playlists whose URIs may differ in the directory only
NextAnyDir ==
    \/ Start
    \/ PollerTickerFire
    \/ PollerHaltCase
    \/ PollerTickCase
    \/ \E e \in PollErrors : PollerPollFailed(e)
    \/ \E p \in PlaylistsAnyDir : PollerPollOk(p)
    \/ PollerSend
    \/ WorkerReceive
    \/ \E item \in busy, ok \in BOOLEAN : WorkerDownloadReturn(item, ok)
    \/ WorkerExit
    \/ CloseDone
    \/ MonitorTickerFire
    \/ MonitorTickCase
    \/ \E s \in SpaceStates : MonitorQueryReturn(s)
    \/ MonitorDoneCase

SpecAnyDir == Init /\ [][NextAnyDir]_vars

\* the poller and the workers of a session that is not halted, with the
\* order of discovery and the failed downloads recorded
ObservedNext ==
    \/ Start
    \/ PollerTickCase
    \/ \E e \in PollErrors : PollerPollFailed(e)
    \/ \E p \in Playlists : PollerPollOk(p)
    \/ PollerSend
    \/ WorkerReceive
    \/ \E item \in busy, ok \in BOOLEAN : WorkerDownloadReturn(item, ok)

ObservedSpec == InitWith({1}, "none", TRUE, {<<>>}) /\ [][ObservedNext]_vars

\* download and the poller of a session whose playlist lists no segment,
\* with the result of the latest state query recorded
MonitoredNext ==
    \/ Start
    \/ PollerTickerFire
    \/ PollerHaltCase
    \/ PollerTickCase
    \/ \E e \in PollErrors : PollerPollFailed(e)
    \/ PollerPollOk(<<>>)
    \/ WorkerExit
    \/ CloseDone
    \/ MonitorTickerFire
    \/ MonitorTickCase
    \/ \E s \in SpaceStates : MonitorQueryReturn(s)
    \/ MonitorDoneCase

MonitoredSpec ==
    InitWith({1}, "none", TRUE, {<<>>}) /\ [][MonitoredNext]_vars

\* the engine with any worker count from 0 to the default, and download
ConfiguredNext ==
    \/ \E n \in 0..DefaultParallel : SetParallel(n)
    \/ Start
    \/ PollerHaltCase
    \/ PollerTickCase
    \/ \E p \in Playlists : PollerPollOk(p)
    \/ PollerSend
    \/ WorkerReceive
    \/ \E item \in busy, ok \in BOOLEAN : WorkerDownloadReturn(item, ok)
    \/ WorkerExit
    \/ CloseDone
    \/ MonitorTickCase
    \/ \E s \in SpaceStates : MonitorQueryReturn(s)
    \/ MonitorDoneCase

ConfiguredSpec == Init /\ [][ConfiguredNext]_vars

\* the engine and download, with the history recorded; every tick is taken
\* before the next one
HaltedSendNext ==
    \/ Start
    \/ PollerHaltCase
    \/ PollerTickCase
    \/ \E e \in PollErrors : PollerPollFailed(e)
    \/ \E p \in Playlists : PollerPollOk(p)
    \/ PollerSend
    \/ WorkerReceive
    \/ \E item \in busy, ok \in BOOLEAN : WorkerDownloadReturn(item, ok)
    \/ WorkerExit
    \/ CloseDone
    \/ MonitorTickCase
    \/ \E s \in SpaceStates : MonitorQueryReturn(s)
    \/ MonitorDoneCase

HaltedSendSpec ==
    InitWith({1}, "none", TRUE, {<<>>}) /\ [][HaltedSendNext]_vars

\* the poller and the workers with a long playlist, no Halt
QueueNext ==
    \/ Start
    \/ PollerTickCase
    \/ PollerPollOk(LongPlaylist)
    \/ PollerSend
    \/ WorkerReceive
    \/ \E item \in busy, ok \in BOOLEAN : WorkerDownloadReturn(item, ok)

QueueSpec == Init /\ [][QueueNext]_vars

\* every goroutine is scheduled and every HTTP request returns; a select
\* chooses among its ready cases at random, so a case that is ready again
\* and again is taken in the end
FairSpec ==
    /\ Init
    /\ [][Next]_vars
    /\ SF_vars(PollerHaltCase)
    /\ WF_vars(PollerTickCase)
    /\ WF_vars(\E e \in PollErrors : PollerPollFailed(e))
    /\ WF_vars(\E p \in Playlists : PollerPollOk(p))
    /\ WF_vars(PollerSend)
    /\ WF_vars(WorkerReceive)
    /\ WF_vars(\E item \in busy, ok \in BOOLEAN :
                   WorkerDownloadReturn(item, ok))
    /\ WF_vars(WorkerExit)
    /\ WF_vars(CloseDone)
    /\ WF_vars(\E s \in SpaceStates : MonitorQueryReturn(s))
    /\ SF_vars(MonitorDoneCase)

\* ======================================================================
\* The claims
\* ======================================================================

\* C1: in one capture session each SegmentID is placed on the work queue
\* at most once, also when it appears in several poll results and while
\* workers dequeue concurrently.
C1_EnqueuedAtMostOnce == \A i \in SegIds : enqueued[i] <= 1

\* C1 witness: a SegmentID was sent once, a later poll met it again, and a
\* worker is downloading while the poller is between polls.
C1_Witness ==
    /\ repeated
    /\ \A i \in seq : enqueued[i] = 1
    /\ busy # {}
    /\ ppc = "select"
    /\ ~crashed

\* C2 (as claimed): within one Query call the query is sent at most twice
\* and the guest token is refreshed at most once.
C2_AtMostTwoRequests ==
    \A c \in AllCallers : nreq[c] <= 2 /\ nrefresh[c] <= 1

\* C3 (as claimed): when the first attempt and the re-issued attempt are
\* both rejected with the bad-guest-token error, Query has returned the
\* second attempt's QueryError, after two requests.
C3_SecondRejectionReturned ==
    \A c \in AllCallers :
        (/\ Len(errs[c]) >= 2
         /\ isBadGuestToken(errs[c][1])
         /\ isBadGuestToken(errs[c][2]))
        => (qpc[c] = "done" /\ qerr[c] = errs[c][2] /\ nreq[c] = 2)

\* C4 (as claimed): every Query call that sent its request reaches a
\* terminal state, whatever the server answers, when every HTTP request
\* returns.
C4_QueryTerminates ==
    \A c \in AllCallers : (qpc[c] = "request") ~> (qpc[c] = "done")

\* C5: when the first attempt is rejected with the bad-guest-token error,
\* the refresh succeeds and the second attempt is not so rejected, Query
\* returns the second attempt's outcome after exactly one refresh and
\* exactly two requests, the second carrying the token the refresh obtained.
C5_SecondOutcomeReturned ==
    \A c \in AllCallers :
        (/\ Len(errs[c]) >= 2
         /\ isBadGuestToken(errs[c][1])
         /\ ~isBadGuestToken(errs[c][2]))
        => /\ qpc[c] = "done"
           /\ qerr[c] = errs[c][2]
           /\ nrefresh[c] = 1
           /\ nreq[c] = 2
           /\ sent[c] = issued[c]

\* C5 witness: such a call has returned the second attempt's success, made
\* with the token "g2" that the refresh obtained.
C5_Witness ==
    \E c \in AllCallers :
        /\ qpc[c] = "done"
        /\ Len(errs[c]) = 2
        /\ isBadGuestToken(errs[c][1])
        /\ errs[c][2] = errNil
        /\ qerr[c] = errNil
        /\ sent[c] = "g2"

\* C6: Done is closed only after the halt signal was raised, the poller
\* exited, the work queue was closed and drained, and every worker finished
\* its download and exited, in this order; with Done closed no download
\* starts or ends.
C6_DoneAfterDrain ==
    /\ ppc = "exited" => halt = "closed" /\ urls = <<>>
    /\ dlChClosed => ppc = "exited"
    /\ exitedWorkers > 0 => dlChClosed /\ dlCh = <<>>
    /\ Done = "closed" =>
           /\ exitedWorkers = Parallel
           /\ busy = {}
           /\ dlCh = <<>>
    /\ ~workAfterDone

\* C6 witness: Done is closed after segments were queued and downloaded.
C6_Witness ==
    /\ Done = "closed"
    /\ \A i \in SegIds : enqueued[i] = 1
    /\ ~crashed

\* C7 (as claimed): the halt channel is closed at most once per session.
C7_HaltAtMostOnce == haltCalls <= 1

\* C8: the engine halts itself exactly when 31 consecutive polls have failed
\* (threshold 30), the count of consecutive failures being reset by every
\* successful poll.
C8_SelfHaltAtLimit ==
    /\ errCount = failRun
    /\ selfHalted <=> failRun = playlistDownloadErrorLimit + 1
    /\ failRun <= playlistDownloadErrorLimit + 1

\* C8 witness: the engine halted itself and the caller never called Halt.
C8_Witness ==
    /\ selfHalted
    /\ haltCalls = 1
    /\ halt = "closed"
    /\ ~mStopped
    /\ \E i \in SegIds : enqueued[i] = 1

\* C9 (as claimed): once Halt has been called the poller begins no new poll.
C9_NoPollAfterHalt == ~pollAfterHalt

\* C10 (as claimed): after the halt signal is raised Done is eventually
\* closed, under fair scheduling and with every HTTP request returning.
C10_HaltLeadsToDone == (halt = "closed") ~> (Done = "closed")

\* C11 (as claimed): for a response whose body decodes, parseResponse
\* returns nil exactly when the status is 200 and the errors list is empty,
\* and a QueryError with the decoded errors and the status when the status
\* is 4xx/5xx or the errors list is not empty.
C11_ParseResponseClassifies ==
    \A c \in AllCallers :
        LET r == last[c].resp
            e == last[c].err
        IN  (r # NoResponse /\ ~r.transport /\ r.decodes) =>
                /\ (e = errNil) <=> (r.status = 200 /\ r.errors = <<>>)
                /\ (r.status \div 100 \in {4, 5} \/ r.errors # <<>>)
                       => e = QueryError(r.errors, r.status)

\* C12: when an attempt of Query ends with a QueryError none of whose
\* messages is "Bad guest token" in any letter case, Query returns that
\* error as it is, stores no guest token and sends no further request; when
\* one of its messages is "Bad guest token" in some letter case, the guest
\* token refresh begins.
C12_OnlyBadGuestTokenRefreshes ==
    [][\A c \in AllCallers :
          (qpc[c] = "request" /\ qpc'[c] # "request"
             /\ last'[c].err.kind = "QueryError") =>
              LET e == last'[c].err
                  bad == \E k \in 1..Len(e.Errors) :
                             e.Errors[k] \in {"Bad guest token",
                                              "BAD GUEST TOKEN"}
              IN  IF bad
                  THEN qpc'[c] = "refresh"
                  ELSE /\ qpc'[c] = "done"
                       /\ qerr'[c] = e
                       /\ nreq'[c] = nreq[c]
                       /\ nrefresh'[c] = nrefresh[c]
                       /\ guestToken' = guestToken]_vars

\* C12 witness: the first attempt's QueryError, a rate limit, was returned
\* after one request and no refresh.
C12_Witness ==
    \E c \in AllCallers :
        /\ qpc[c] = "done"
        /\ qerr[c] = QueryError(<<"Rate limit exceeded">>, 403)
        /\ last[c].err = qerr[c]
        /\ nreq[c] = 1
        /\ nrefresh[c] = 0

\* C13: Query with a name that is not in the catalog, also on a client that
\* was never initialized, returns the operation-not-found error, sends no
\* request and leaves the catalog and the credentials as they were.
C13_UnknownOperationFailsFast ==
    [][\A c \in AllCallers :
          (qpc[c] = "idle" /\ qpc'[c] # "idle"
             /\ qname'[c] \notin DOMAIN operations) =>
              /\ qpc'[c] = "done"
              /\ qerr'[c] = errPlain("operation not found")
              /\ nreq'[c] = 0
              /\ operations' = operations
              /\ bearerToken' = bearerToken
              /\ guestToken' = guestToken]_vars

\* C13 witness: an initialized client whose catalog lacks the name has
\* returned the operation-not-found error without a request.
C13_Witness ==
    \E c \in AllCallers :
        /\ initState = "ok"
        /\ guestToken = "g1"
        /\ qpc[c] = "done"
        /\ qname[c] \notin DOMAIN operations
        /\ qerr[c] = errPlain("operation not found")
        /\ nreq[c] = 0

\* C14 (as claimed): after an Initialize that failed the client holds no
\* operations, no bearer token and no guest token, and no Query has sent a
\* request.
C14_FailedInitializeKeepsNothing ==
    initState = "failed" =>
        /\ operations = <<>>
        /\ bearerToken = ""
        /\ guestToken = ""
        /\ \A c \in AllCallers : nreq[c] = 0

\* C15: Initialize performs its steps in the order getIndex, getMainJsURL,
\* getApiJsURL, getOperations, getBearerToken, refreshGuestToken; when a step
\* fails it returns that step's error and performs no later step, so the
\* guest token is activated only with a derived bearer token.
C15_InitializeStepsInOrder ==
    LET steps == initRun.steps
        n == Len(steps)
    IN  /\ (initState = "new") <=> (steps = <<>>)
        /\ steps = SubSeq(InitSteps, 1, n)
        /\ initState = "ok" => steps = InitSteps /\ initRun.err = ""
        /\ initState = "failed" =>
               \/ initRun.err = steps[n]
               \/ initRun.err = "operations not found"
                    /\ steps[n] = "getOperations"
        /\ (n = Len(InitSteps) /\ steps[n] = "refreshGuestToken")
               => bearerToken \in BearerTokens

\* C15 witness: Initialize failed in getBearerToken, its fifth step.
C15_Witness ==
    /\ initState = "failed"
    /\ initRun.err = "getBearerToken"
    /\ Len(initRun.steps) = 5

\* C16: when extractOperations finds no operation, Initialize fails with
\* the operations-not-found error, and neither getBearerToken nor
\* refreshGuestToken is performed.
C16_EmptyCatalogFails ==
    (initRun.extracted /\ initRun.found = <<>>) =>
        /\ initState = "failed"
        /\ initRun.err = "operations not found"
        /\ initRun.steps = SubSeq(InitSteps, 1, 4)
        /\ bearerToken = ""
        /\ guestToken = ""

\* C16 witness: Initialize has failed on an empty catalog.
C16_Witness ==
    /\ initState = "failed"
    /\ initRun.extracted
    /\ initRun.found = <<>>
    /\ initRun.err = "operations not found"

\* C17: a poll that decodes a playlist not of media kind returns an error:
\* it stores no SeqId, yields no URL, sends nothing on the queue and adds
\* one to the count of consecutive failures.
C17_NotMediaPollFails ==
    [][(ppc = "getSegments" /\ ppc' # "getSegments" /\ pollNotMedia') =>
          /\ seq' = seq
          /\ urls' = urls
          /\ dlCh' = dlCh
          /\ enqueued' = enqueued
          /\ errCount' = errCount + 1
          /\ failRun' = failRun + 1]_vars

\* C17 witness: after a segment was queued, a poll met a playlist not of
\* media kind and the poller is back at its select with one failure counted.
C17_Witness ==
    /\ pollNotMedia
    /\ ppc = "select"
    /\ errCount = 1
    /\ seq # {}
    /\ \A i \in seq : enqueued[i] = 1

\* C18 (as claimed): from Start until the queue is closed and drained, the
\* number of live workers is Parallel, whatever downloads have failed.
C18_WorkersStayLive ==
    LET live == IF crashed THEN 0 ELSE Parallel - exitedWorkers
    IN  (ppc # "none" /\ ~(dlChClosed /\ dlCh = <<>>)) => live = Parallel

\* C19 (as claimed): every item sent on the queue is received by one worker
\* and downloadSegment is called for it once; with Done closed every item
\* sent was downloaded; and a call of Halt leaves no download aborted and no
\* item in the queue.
C19_EveryQueuedURLDownloadedOnce ==
    /\ \A i \in SegIds :
           /\ attempts[i] <= 1
           /\ attempts[i] + Cardinality({k \in 1..Len(dlCh) :
                                           dlCh[k].SeqId = i}) = enqueued[i]
    /\ Done = "closed" => attempts = enqueued
    /\ haltCalls >= 2 => (busy = {} /\ dlCh = <<>>)

\* C20 (as claimed): no two SeqIds are written to the same file, at the same
\* time or one after the other.
C20_DistinctFiles ==
    /\ \A a \in written, b \in written :
           a.path = b.path => a.SeqId = b.SeqId
    /\ \A a \in busy, b \in busy :
           outputPath(a.url) = outputPath(b.url) => a.SeqId = b.SeqId

\* C22: download calls Halt only when the state query it just made returned
\* without an error and reported the state Ended; a state query that
\* returns an error changes nothing of the engine and leaves download at its
\* select, where the next tick queries the state again.
C22_HaltOnlyWhenEnded ==
    [][(mpc = "query" /\ mpc' = "select") =>
          /\ haltCalls' # haltCalls => lastQuery' = "Ended"
          /\ lastQuery' = "error" =>
                 /\ halt' = halt
                 /\ haltCalls' = haltCalls
                 /\ mStopped' = mStopped
                 /\ crashed' = crashed]_vars

\* C22 witness: while a poll had failed, a state query reported Ended and
\* download has called Halt; the poller never did.
C22_Witness ==
    /\ lastQuery = "Ended"
    /\ haltCalls = 1
    /\ halt = "closed"
    /\ ~selfHalted
    /\ errCount > 0
    /\ ~crashed

\* C27: once Initialize has succeeded, no step of Query, of its retry, of
\* refreshGuestToken or of GetStreamURL changes the operations or the bearer
\* token, and the guest token changes only when a refresh that a
\* bad-guest-token rejection started inside Query returns a token.
C27_CatalogAndBearerReadOnly ==
    [][initState = "ok" =>
          /\ operations' = operations
          /\ bearerToken' = bearerToken
          /\ guestToken' # guestToken =>
                 \E c \in AllCallers :
                     /\ qpc[c] = "refresh"
                     /\ qpc'[c] = "request"
                     /\ guestToken' = issued'[c]
                     /\ last[c].err.kind = "QueryError"
                     /\ \E k \in 1..Len(last[c].err.Errors) :
                            last[c].err.Errors[k] \in
                                {"Bad guest token", "BAD GUEST TOKEN"}]_vars

\* C27 witness: on an initialized client GetStreamURL has returned and a
\* Query has stored the guest token "g2" that its refresh obtained.
C27_Witness ==
    /\ initState = "ok"
    /\ stream.called
    /\ \E c \in AllCallers :
           /\ nrefresh[c] = 1
           /\ issued[c] = "g2"
           /\ guestToken = "g2"
           /\ qpc[c] = "done"

\* C30 (as claimed): when the refresh that follows a bad-guest-token
\* rejection obtains no guest token (getGuestToken returns an error, or the
\* answer of guest/activate.json carries no token), Query returns the
\* refresh's error, sends no further request and leaves the stored guest
\* token as it was.
C30_FailedRefreshReturned ==
    [][\A c \in AllCallers :
          (/\ qpc[c] = "refresh"
           /\ qpc'[c] # "refresh"
           /\ qpc'[c] = "done" \/ issued'[c] = "") =>
              /\ qpc'[c] = "done"
              /\ qerr'[c] = errPlain("guest token")
              /\ nreq'[c] = nreq[c]
              /\ guestToken' = guestToken]_vars

\* C21 (as claimed): with two Query calls in progress on one client, at most
\* one of them is refreshing the guest token at any time.
C21_SingleFlightRefresh ==
    Cardinality({c \in AllCallers : qpc[c] = "refresh"}) <= 1

\* C25: at every moment at most Parallel downloads are in progress and at
\* most 10 URLs wait in the queue; every SeqId a poll stored was sent on the
\* queue or is still held by the poller, which waits on its send while the
\* queue is full.
C25_BoundedWorkersAndQueue ==
    /\ Cardinality(busy) <= Parallel
    /\ Len(dlCh) <= dlChCap
    /\ \A i \in seq :
           \/ enqueued[i] = 1
           \/ \E k \in 1..Len(urls) : urls[k].SeqId = i
    /\ (ppc = "send") = (urls # <<>>)

\* C25 witness: the queue is full, every worker is downloading and the
\* poller waits on its send with a URL in hand.
C25_Witness ==
    /\ Len(dlCh) = dlChCap
    /\ Cardinality(busy) = Parallel
    /\ ppc = "send"
    /\ urls # <<>>
    /\ ~canSend(dlCh)

\* C28 (as claimed): extractOperations passes over a fragment the parser
\* rejects and goes on: every well-formed operation object that comes after
\* such a fragment is in the catalog it returns, and the catalog has no name
\* but those of well-formed operation objects.
C28_ScanGoesOnAfterMalformed ==
    exPc = "returned" =>
        /\ \A k \in 1..Len(src) :
               (/\ src[k].kind = "op"
                /\ \E j \in 1..(k - 1) : src[j].kind = "malformed"
                /\ \A j \in 1..Len(src) : src[j].kind # "unclosed")
               => src[k].name \in DOMAIN catalog
        /\ \A n \in DOMAIN catalog :
               \E k \in 1..Len(src) : src[k].kind = "op" /\ src[k].name = n

\* C29 (as claimed): a name that several well-formed operation objects of
\* the source carry is mapped to the queryId of the last of them.
C29_LastOccurrenceWins ==
    exPc = "returned" =>
        \A n \in {"AudioSpaceById", "UserByRestId"} :
            LET occ == {k \in 1..Len(src) :
                           src[k].kind = "op" /\ src[k].name = n}
                lastOcc == CHOOSE k \in occ : \A j \in occ : j <= k
            IN  Cardinality(occ) >= 2 =>
                    (n \in DOMAIN catalog /\ catalog[n] = src[lastOcc].id)

C26_SeenSetOnlyGrows ==
    [][/\ mpc # "start" => seq \subseteq seq'
       /\ failedDl' \subseteq seq'
       /\ \A i \in failedDl' : enqueued'[i] = 1]_vars

\* C26 witness: a later poll met again a SeqId whose download had failed,
\* and it was sent once only.
C26_Witness ==
    /\ metFailed
    /\ failedDl # {}
    /\ \A i \in failedDl : i \in seq /\ enqueued[i] = 1
    /\ ppc = "select"
    /\ ~crashed

\* C23 (as claimed): dl.Start is called only after Initialize returned nil,
\* the state was read as Running or Ended, the owner was found and a stream
\* URL was obtained; a run that ended with an error has not called Start and
\* no segment was polled or downloaded.
C23_StartedOnlyWhenPrepared ==
    /\ rpc \in {"started"} \/ ppc # "none" =>
           /\ initState = "ok"
           /\ isSpaceAvailable(runInfo.state)
           /\ runInfo.owner
           /\ stream.called /\ ~stream.err /\ stream.location # ""
    /\ rpc = "failed" =>
           /\ mpc = "start"
           /\ ppc = "none"
           /\ seq = {}
           /\ busy = {}

\* C31 (as claimed): every item waiting on d.dlCh, and every item the poller
\* is about to send, is a URL that u.Parse resolved, never the nil URL.
C31_NoNilURLQueued ==
    /\ \A k \in 1..Len(dlCh) : dlCh[k].url # NilURL
    /\ \A k \in 1..Len(urls) : urls[k].url # NilURL

\* C32: the SeqIds a poll stored in d.seq are all sent on d.dlCh by that
\* poll: while the poller sends, d.seq is what was sent plus what it still
\* holds, and at any other point, in particular when the poller has exited,
\* d.seq is the set of the SeqIds sent; this also when Halt was called while
\* the poller was sending.
C32_SeenAreEnqueued ==
    LET sentIds == {i \in DOMAIN enqueued : enqueued[i] > 0}
        heldIds == {urls[k].SeqId : k \in 1..Len(urls)}
    IN  /\ ppc = "send" => seq = sentIds \cup heldIds
        /\ ppc # "send" => seq = sentIds /\ urls = <<>>

\* C32 witness: download called Halt while the poller was sending; the
\* poller has exited and every SeqId it stored was sent.
C32_Witness ==
    /\ haltInSend
    /\ ppc = "exited"
    /\ seq # {}
    /\ seq = {i \in DOMAIN enqueued : enqueued[i] > 0}
    /\ ~crashed

\* C33 (as claimed): when d.Done is closed, every file that downloadSegment
\* opened in the output directory belongs to a segment whose download
\* returned without an error.
C33_NoFileOfFailedDownload ==
    Done = "closed" => \A w \in written : w.SeqId \notin failedDl

\* C34 (as claimed): whatever d.Parallel >= 0 was set before Start, d.Done
\* is not closed while the poller has not exited and d.halt is not closed.
C34_DoneNotBeforeHaltOrExit ==
    Done = "closed" => (ppc = "exited" \/ halt = "closed")

\* C35 (as claimed): extractOperations returns on every source; it never
\* ends in a run-time panic.
C35_ExtractNeverPanics ==
    exPc # "panicked"

\* C36 (as claimed): the list appendMissingParam returns has an entry named
\* paramKey whose Value maps key to value, whether or not the list it was
\* given had an entry of that name.
C36_ReturnedListHasParam ==
    apPc = "returned" =>
        \E i \in 1..Len(apOut) :
            /\ apOut[i].Name = apIn.paramKey
            /\ apIn.key \in DOMAIN apOut[i].Value
            /\ apOut[i].Value[apIn.key] = FALSE

====
